---- MODULE Spec2Model ----
(***************************************************************************)
(* A model of whisper_finetune/preprocess.py:                              *)
(*   skrink_splits                              (SplitSpec)                *)
(*   Preprocessor.__call__                      (PreprocessSpec)           *)
(*   DataCollatorSpeechSeq2SeqWithPadding.__call__  (CollateSpec)          *)
(* Python sequences are 0-based; TLA+ sequences are 1-based, so Python     *)
(* index k is position k + 1 of the TLA+ sequence.                         *)
(***************************************************************************)
EXTENDS Integers, Sequences, FiniteSets, TLC

VARIABLES
  \* ---- skrink_splits: arguments
  ds,            \* DatasetDict: split name -> sequence of examples
  ds_before,     \* the value ds had when the caller made its first call
  split_sizes,   \* dict in iteration order: sequence of [name, size]
  grow_split,    \* name of the split that receives the overflow
  seed,          \* seed of the current call
  \* ---- skrink_splits: locals
  rng,           \* the generator: [seed, draws]; <<>> before line 23
  dataset,       \* the DatasetDict under construction
  moved,         \* list of overflow datasets
  it,            \* position of the for loop in split_sizes.items()
  idx_remaining, \* split name -> the idx_remaining drawn for it (line 29)
  idx_move,      \* split name -> the idx_move computed for it (line 30)
  \* ---- skrink_splits: what the caller sees
  pc,            \* "start", "loop", "done" (returned), "raised"
  err,           \* the exception that propagated, "" if none
  result,        \* <<>> while nothing was returned, <<dataset>> after return
  prev,          \* <<>>, or <<[seed, value]>> of the caller's earlier call
  stream,        \* what the generators have produced: <<seed, draw no>> -> draw
  \* ---- Preprocessor.__call__
  heap,          \* object name -> the dict stored there
  ret,           \* <<>> while nothing was returned, <<object name>> after return
  before,        \* the dict the caller passed, as it was at the call
  ppc,           \* "idle", "start", "extracted", "tokenized", "done"
  \* ---- DataCollatorSpeechSeq2SeqWithPadding.__call__
  tokenizer,     \* [bos_token_id, pad_token_id]
  features,      \* the list of examples: [input_features, labels]
  batch,         \* the dict that is returned
  labels_batch,  \* what tokenizer.pad returned: [input_ids, attention_mask]
  labels,        \* the local labels
  cpc            \* "idle", "start", "padded", "filled", "checked", "done", "raised"

splitVars == <<ds, ds_before, split_sizes, grow_split, seed, rng, dataset, moved, it,
               idx_remaining, idx_move, pc, err, result, prev, stream>>

prepVars == <<heap, ret, before, ppc>>

collateVars == <<tokenizer, features, batch, labels_batch, labels, cpc>>

vars == <<splitVars, prepVars, collateVars>>

----------------------------------------------------------------------------
(* Bounds and input sets *)

\* largest split length and largest target size that are tried
MaxLen == 3

AllNames == {"train", "test", "validation"}

\* the generator is an unknown function of its seed (see stream), so one
\* seed, the default of the signature, stands for every seed
Seeds == {0}

----------------------------------------------------------------------------
(* Helpers for sequences *)

Range(s) == {s[k] : k \in DOMAIN s}

Min(S) == CHOOSE x \in S : \A y \in S : x <= y

RECURSIVE SortedSeq(_)
SortedSeq(S) == IF S = {} THEN <<>> ELSE <<Min(S)>> \o SortedSeq(S \ {Min(S)})

RECURSIVE Flatten(_)
Flatten(ss) == IF ss = <<>> THEN <<>> ELSE Head(ss) \o Flatten(Tail(ss))

RECURSIVE SumLen(_, _)
SumLen(f, S) ==
  IF S = {} THEN 0
  ELSE LET x == CHOOSE y \in S : TRUE IN Len(f[x]) + SumLen(f, S \ {x})

EmptyDict == [s \in {} |-> <<>>]

\* d[key] = value, as a dict assignment
SetItem(d, key, value) == (key :> value) @@ d

----------------------------------------------------------------------------
(* The dataset library, as skrink_splits uses it *)

\* a split of n examples; example k of split s is <<s, k>>
MakeSplit(s, n) == [k \in 1..n |-> <<s, k - 1>>]

\* Dataset.select(indices): the rows at the indices, in the order given
select(d, indices) == [k \in 1..Len(indices) |-> d[indices[k] + 1]]

\* datasets.concatenate_datasets(list): the rows of each, in list order
concatenate_datasets(list) == Flatten(list)

\* np.arange(n)
arange(n) == [k \in 1..n |-> k - 1]

\* np.setdiff1d(a, b): the sorted unique values of a that are not in b
setdiff1d(a, b) == SortedSeq(Range(a) \ Range(b))

\* a variant of Choices: rng.choice(n, size) with replacement
ChoicesWithReplacement(n, size) == [1..size -> 0..(n - 1)]

\* what rng.choice(n, size, replace=False) can return: size distinct
\* values of 0..n-1 in any order
Choices(n, size) ==
  {p \in [1..size -> 0..(n - 1)] : \A a, b \in 1..size : a # b => p[a] # p[b]}

\* a variant of default_rng: one generator shared by all calls, which goes
\* on from where the earlier calls left it
default_rng_shared(s) == [seed |-> s, draws |-> Cardinality(DOMAIN stream)]

\* np.random.default_rng(seed): a fresh generator that has drawn nothing
default_rng(s) == [seed |-> s, draws |-> 0]

\* the generator's position in its stream
StreamKey(g) == <<g.seed, g.draws>>

\* a variant of NeedsShrink: len(ds[split]) >= size
NeedsShrinkOrEqual(n, size) == n >= size

\* len(ds[split]) > size
NeedsShrink(n, size) == n > size

\* a variant of GrowParts: the overflow first, the growth split after it
GrowPartsMovedFirst == moved \o <<ds[grow_split]>>

\* the datasets concatenated on line 34
GrowParts == <<ds[grow_split]>> \o moved

----------------------------------------------------------------------------
(* skrink_splits *)

Names(ss) == {ss[k].name : k \in DOMAIN ss}

\* dicts whose keys are some but not all of AllNames, in every iteration
\* order; the target sizes are counts, 0 and above
SplitSizeDicts ==
  UNION {
    {ss \in [1..Cardinality(K) -> [name : K, size : 0..MaxLen]] :
        \A a, b \in 1..Cardinality(K) : a # b => ss[a].name # ss[b].name}
    : K \in SUBSET AllNames \ {AllNames}}

\* DatasetDicts: at most one of AllNames is not a split
DatasetDicts ==
  UNION {
    {[s \in K |-> MakeSplit(s, len[s])] : len \in [K -> 0..MaxLen]}
    : K \in {K \in SUBSET AllNames : Cardinality(K) >= Cardinality(AllNames) - 1}}

\* skrink_splits is not running
IdleSplits ==
  /\ ds = EmptyDict
  /\ ds_before = EmptyDict
  /\ split_sizes = <<>>
  /\ grow_split = "train"
  /\ seed = 0
  /\ rng = <<>>
  /\ dataset = EmptyDict
  /\ moved = <<>>
  /\ it = 1
  /\ idx_remaining = EmptyDict
  /\ idx_move = EmptyDict
  /\ pc = "idle"
  /\ err = ""
  /\ result = <<>>
  /\ prev = <<>>
  /\ stream = EmptyDict

\* the splits the call reads; the others are given one length only
Referenced == Names(split_sizes) \cup {grow_split}

InitSplits ==
  /\ split_sizes \in SplitSizeDicts
  /\ grow_split \in AllNames
  /\ ds \in DatasetDicts
  /\ \A s \in DOMAIN ds \ Referenced : Len(ds[s]) = 1
  /\ ds_before = ds
  /\ seed \in Seeds
  /\ rng = <<>>
  /\ dataset = EmptyDict
  /\ moved = <<>>
  /\ it = 1
  /\ idx_remaining = EmptyDict
  /\ idx_move = EmptyDict
  /\ pc = "start"
  /\ err = ""
  /\ result = <<>>
  /\ prev = <<>>
  /\ stream = EmptyDict

\* lines 23-25
Begin ==
  /\ pc = "start"
  /\ rng' = default_rng(seed)
  /\ dataset' = EmptyDict
  /\ moved' = <<>>
  /\ it' = 1
  /\ idx_remaining' = EmptyDict
  /\ idx_move' = EmptyDict
  /\ pc' = "loop"
  /\ UNCHANGED <<ds, ds_before, split_sizes, grow_split, seed, err, result, prev, stream>>
  /\ UNCHANGED <<prepVars, collateVars>>

\* a variant of Raise: the exception is caught and what was built so far is
\* returned
RaiseSwallowed(e) ==
  /\ pc' = "done"
  /\ err' = ""
  /\ result' = <<dataset>>
  /\ UNCHANGED <<ds, ds_before, split_sizes, grow_split, seed, rng, dataset, moved,
                 it, idx_remaining, idx_move, prev, stream>>
  /\ UNCHANGED <<prepVars, collateVars>>

\* an exception leaves the call: the locals are gone, nothing is returned
Raise(e) ==
  /\ pc' = "raised"
  /\ err' = e
  /\ rng' = <<>>
  /\ dataset' = EmptyDict
  /\ moved' = <<>>
  /\ idx_remaining' = EmptyDict
  /\ idx_move' = EmptyDict
  /\ UNCHANGED <<ds, ds_before, split_sizes, grow_split, seed, it, result, prev, stream>>
  /\ UNCHANGED <<prepVars, collateVars>>

InLoop == pc = "loop" /\ it <= Len(split_sizes)

\* line 28, ds[split] with split not a key of ds
LoopKeyError ==
  /\ InLoop
  /\ split_sizes[it].name \notin DOMAIN ds
  /\ Raise("KeyError")

\* lines 27-28, the condition is false
LoopSkip ==
  /\ InLoop
  /\ split_sizes[it].name \in DOMAIN ds
  /\ ~NeedsShrink(Len(ds[split_sizes[it].name]), split_sizes[it].size)
  /\ it' = it + 1
  /\ UNCHANGED <<ds, ds_before, split_sizes, grow_split, seed, rng, dataset, moved,
                 idx_remaining, idx_move, pc, err, result, prev, stream>>
  /\ UNCHANGED <<prepVars, collateVars>>

\* lines 27-32, the condition is true.  The draw is whatever the generator
\* yields at its position in the stream: a generator created from the same
\* seed yields the same draws again.
LoopShrink ==
  /\ InLoop
  /\ split_sizes[it].name \in DOMAIN ds
  /\ LET split == split_sizes[it].name
         size  == split_sizes[it].size
         n     == Len(ds[split])
     IN /\ NeedsShrink(n, size)
        /\ \E draw \in Choices(n, size) :
             /\ StreamKey(rng) \in DOMAIN stream => draw = stream[StreamKey(rng)]
             /\ stream' = SetItem(stream, StreamKey(rng), draw)
             /\ rng' = [rng EXCEPT !.draws = @ + 1]
             /\ idx_remaining' = SetItem(idx_remaining, split, draw)
             /\ idx_move' = SetItem(idx_move, split, setdiff1d(arange(n), draw))
             /\ dataset' = SetItem(dataset, split, select(ds[split], draw))
             /\ moved' = Append(moved, select(ds[split], setdiff1d(arange(n), draw)))
  /\ it' = it + 1
  /\ UNCHANGED <<ds, ds_before, split_sizes, grow_split, seed, pc, err, result, prev>>
  /\ UNCHANGED <<prepVars, collateVars>>

AfterLoop == pc = "loop" /\ it > Len(split_sizes)

\* line 34, ds[grow_split] with grow_split not a key of ds
ConcatKeyError ==
  /\ AfterLoop
  /\ grow_split \notin DOMAIN ds
  /\ Raise("KeyError")

\* lines 34-35
ConcatReturn ==
  /\ AfterLoop
  /\ grow_split \in DOMAIN ds
  /\ dataset' = SetItem(dataset, grow_split, concatenate_datasets(GrowParts))
  /\ result' = <<dataset'>>
  /\ pc' = "done"
  /\ UNCHANGED <<ds, ds_before, split_sizes, grow_split, seed, rng, moved, it,
                 idx_remaining, idx_move, err, prev, stream>>
  /\ UNCHANGED <<prepVars, collateVars>>

\* the caller calls skrink_splits once more with the same ds, split_sizes,
\* grow_split and seed
CallAgain ==
  /\ pc = "done"
  /\ prev = <<>>
  /\ prev' = <<[seed |-> seed, value |-> result[1]]>>
  /\ result' = <<>>
  /\ rng' = <<>>
  /\ pc' = "start"
  /\ UNCHANGED <<ds, ds_before, split_sizes, grow_split, seed, dataset, moved, it,
                 idx_remaining, idx_move, err, stream>>
  /\ UNCHANGED <<prepVars, collateVars>>

NextSplits ==
  \/ Begin
  \/ LoopKeyError
  \/ LoopSkip
  \/ LoopShrink
  \/ ConcatKeyError
  \/ ConcatReturn
  \/ CallAgain

----------------------------------------------------------------------------
(* Preprocessor.__call__ *)

\* most samples of an audio array and most characters of a sentence tried
MaxText == 2

SeqsUpTo(S, n) == UNION {[1..k -> S] : k \in 0..n}

\* the feature extractor, a collaborator: a fixed-width vector per audio
\* array, shorter arrays padded and longer ones cut
LogMel(array, sampling_rate) ==
  [k \in 1..2 |-> IF k <= Len(array) THEN array[k] + 1 ELSE 0]

\* self.feature_extractor(array, sampling_rate=...): a batch of one
feature_extractor(array, sampling_rate) ==
  [input_features |-> <<LogMel(array, sampling_rate)>>]

\* self.tokenizer(text): start token, one id per character, end token
CharId(c) == IF c = "a" THEN 3 ELSE 4

tokenize(text) ==
  [input_ids |-> <<2>> \o [k \in 1..Len(text) |-> CharId(text[k])] \o <<1>>]

\* a variant of ExtractedFeatures: the batch of one, without the [0]
ExtractedFeaturesBatch(audio) ==
  feature_extractor(audio.array, audio.sampling_rate).input_features

\* lines 47-50, the value assigned
ExtractedFeatures(audio) ==
  feature_extractor(audio.array, audio.sampling_rate).input_features[1]

\* a variant of BatchObject: a copy of the argument, dict(batch)
BatchObjectCopy == "copy"

\* the object the name batch refers to: the dict the caller passed
BatchObject == "passed"

\* the dict that the assignments of lines 47 and 52 see
BatchDict == IF BatchObject \in DOMAIN heap THEN heap[BatchObject] ELSE heap["passed"]

RawExamples ==
  {[audio |-> [array |-> a, sampling_rate |-> 16000], sentence |-> s] :
     a \in SeqsUpTo({0, 1}, MaxText), s \in SeqsUpTo({"a", "b"}, MaxText)}

\* a raw example, or one that was preprocessed before
InputExamples ==
  RawExamples \cup {SetItem(SetItem(e, "labels", <<>>), "input_features", <<>>) : e \in RawExamples}

IdlePrep ==
  /\ heap = EmptyDict
  /\ ret = <<>>
  /\ before = EmptyDict
  /\ ppc = "idle"

InitPrep ==
  /\ \E e \in InputExamples : heap = ("passed" :> e) /\ before = e
  /\ ret = <<>>
  /\ ppc = "start"

\* lines 44-50
ExtractFeatures ==
  /\ ppc = "start"
  /\ heap' = SetItem(heap, BatchObject,
                     SetItem(BatchDict, "input_features", ExtractedFeatures(BatchDict.audio)))
  /\ ppc' = "extracted"
  /\ UNCHANGED <<ret, before>>
  /\ UNCHANGED <<splitVars, collateVars>>

\* line 52
Tokenize ==
  /\ ppc = "extracted"
  /\ heap' = SetItem(heap, BatchObject,
                     SetItem(BatchDict, "labels", tokenize(BatchDict.sentence).input_ids))
  /\ ppc' = "tokenized"
  /\ UNCHANGED <<ret, before>>
  /\ UNCHANGED <<splitVars, collateVars>>

\* line 53
ReturnBatch ==
  /\ ppc = "tokenized"
  /\ ret' = <<BatchObject>>
  /\ ppc' = "done"
  /\ UNCHANGED <<heap, before>>
  /\ UNCHANGED <<splitVars, collateVars>>

NextPrep ==
  \/ ExtractFeatures
  \/ Tokenize
  \/ ReturnBatch

----------------------------------------------------------------------------
(* DataCollatorSpeechSeq2SeqWithPadding.__call__ *)

\* most examples of a batch that are tried
MaxBatch == 2

\* most label tokens of an example that are tried
MaxLabels == 2

\* the value masked_fill writes on line 76
IgnoreIndex == -100

TokenIds == {1, 2}

\* the feature vectors are all of one width; their content plays no part
MelVectors == {<<0, 0>>}

Max(S) == CHOOSE x \in S : \A y \in S : x >= y

Repeat(v, n) == [k \in 1..n |-> v]

\* tensor[:, 0]
FirstColumn(m) == [i \in DOMAIN m |-> m[i][1]]

\* tensor[:, 1:]
DropFirstColumn(m) == [i \in DOMAIN m |-> Tail(m[i])]

Width(m) == Len(m[1])

\* self.feature_extractor.pad(input_features, return_tensors="pt")
feature_pad(fs) == [input_features |-> [i \in DOMAIN fs |-> fs[i].input_features]]

\* self.tokenizer.pad(label_features, return_tensors="pt"): every sequence
\* is padded on the right with pad_token_id to the longest of the batch;
\* the attention mask is 1 on the tokens and 0 on the padding
tokenizer_pad(fs) ==
  LET longest == Max({Len(fs[i].input_ids) : i \in DOMAIN fs})
  IN [input_ids |->
        [i \in DOMAIN fs |->
           fs[i].input_ids \o Repeat(tokenizer.pad_token_id, longest - Len(fs[i].input_ids))],
      attention_mask |->
        [i \in DOMAIN fs |->
           Repeat(1, Len(fs[i].input_ids)) \o Repeat(0, longest - Len(fs[i].input_ids))]]

\* a variant of masked_fill: the mask is taken the other way round
masked_fill_where_one(t, mask, value) ==
  [i \in DOMAIN t |-> [j \in DOMAIN t[i] |-> IF mask[i][j] = 1 THEN value ELSE t[i][j]]]

\* tensor.masked_fill(mask.ne(1), value)
masked_fill(t, mask, value) ==
  [i \in DOMAIN t |-> [j \in DOMAIN t[i] |-> IF mask[i][j] # 1 THEN value ELSE t[i][j]]]

\* a variant of AllBos: .any() in place of .all()
AnyBos(m) == \E i \in DOMAIN m : FirstColumn(m)[i] = tokenizer.bos_token_id

\* (labels[:, 0] == self.tokenizer.bos_token_id).all()
AllBos(m) == \A i \in DOMAIN m : FirstColumn(m)[i] = tokenizer.bos_token_id

Examples == [input_features : MelVectors, labels : SeqsUpTo(TokenIds, MaxLabels)]

IdleCollate ==
  /\ tokenizer = [bos_token_id |-> 1, pad_token_id |-> 1]
  /\ features = <<>>
  /\ batch = EmptyDict
  /\ labels_batch = EmptyDict
  /\ labels = <<>>
  /\ cpc = "idle"

InitCollate ==
  /\ tokenizer \in [bos_token_id : {1}, pad_token_id : TokenIds]
  /\ features \in UNION {[1..n -> Examples] : n \in 1..MaxBatch}
  /\ batch = EmptyDict
  /\ labels_batch = EmptyDict
  /\ labels = <<>>
  /\ cpc = "start"

\* lines 67-73
Pad ==
  /\ cpc = "start"
  /\ batch' = feature_pad([i \in DOMAIN features |->
                             [input_features |-> features[i].input_features]])
  /\ labels_batch' = tokenizer_pad([i \in DOMAIN features |->
                                      [input_ids |-> features[i].labels]])
  /\ cpc' = "padded"
  /\ UNCHANGED <<tokenizer, features, labels>>
  /\ UNCHANGED <<splitVars, prepVars>>

\* line 76
MaskedFill ==
  /\ cpc = "padded"
  /\ labels' = masked_fill(labels_batch.input_ids, labels_batch.attention_mask, IgnoreIndex)
  /\ cpc' = "filled"
  /\ UNCHANGED <<tokenizer, features, batch, labels_batch>>
  /\ UNCHANGED <<splitVars, prepVars>>

\* line 80 on a tensor without columns: index 0 is out of bounds
BosIndexError ==
  /\ cpc = "filled"
  /\ Width(labels) = 0
  /\ cpc' = "raised"
  /\ labels' = <<>>
  /\ batch' = EmptyDict
  /\ labels_batch' = EmptyDict
  /\ UNCHANGED <<tokenizer, features>>
  /\ UNCHANGED <<splitVars, prepVars>>

\* lines 80-81, the condition is true
StripBos ==
  /\ cpc = "filled"
  /\ Width(labels) > 0
  /\ AllBos(labels)
  /\ labels' = DropFirstColumn(labels)
  /\ cpc' = "checked"
  /\ UNCHANGED <<tokenizer, features, batch, labels_batch>>
  /\ UNCHANGED <<splitVars, prepVars>>

\* line 80, the condition is false
KeepBos ==
  /\ cpc = "filled"
  /\ Width(labels) > 0
  /\ ~AllBos(labels)
  /\ cpc' = "checked"
  /\ UNCHANGED <<tokenizer, features, batch, labels_batch, labels>>
  /\ UNCHANGED <<splitVars, prepVars>>

\* lines 83-85
ReturnCollated ==
  /\ cpc = "checked"
  /\ batch' = SetItem(batch, "labels", labels)
  /\ cpc' = "done"
  /\ UNCHANGED <<tokenizer, features, labels_batch, labels>>
  /\ UNCHANGED <<splitVars, prepVars>>

NextCollate ==
  \/ Pad
  \/ MaskedFill
  \/ BosIndexError
  \/ StripBos
  \/ KeepBos
  \/ ReturnCollated

----------------------------------------------------------------------------
(* Specifications: one per component, and all three together *)

SplitInit == InitSplits /\ IdlePrep /\ IdleCollate

SplitSpec == SplitInit /\ [][NextSplits]_vars

PreprocessInit == IdleSplits /\ InitPrep /\ IdleCollate

PreprocessSpec == PreprocessInit /\ [][NextPrep]_vars

CollateInit == IdleSplits /\ IdlePrep /\ InitCollate

CollateSpec == CollateInit /\ [][NextCollate]_vars

Init == SplitInit \/ PreprocessInit \/ CollateInit

Next == NextSplits \/ NextPrep \/ NextCollate

Spec == Init /\ [][Next]_vars

----------------------------------------------------------------------------
(* Properties of skrink_splits *)

\* the dataset that was returned
Out == result[1]

Entry(k) == split_sizes[k]

InLen(k) == Len(ds[Entry(k).name])

\* the entries of split_sizes that the loop has gone through
Processed(k) == pc \in {"loop", "done"} /\ k < it

\* how many examples lines 30 and 32 move out of entry k's split
OverflowCount(k) == IF InLen(k) > Entry(k).size THEN InLen(k) - Entry(k).size ELSE 0

RECURSIVE TotalOverflow(_)
TotalOverflow(k) == IF k = 0 THEN 0 ELSE OverflowCount(k) + TotalOverflow(k - 1)

\* the examples of split s at the indices in idx
ExamplesAt(s, idx) == {ds[s][j + 1] : j \in Range(idx)}

\* the examples of entry k's split that were not drawn, in their order in ds
OverflowOf(k) ==
  IF InLen(k) > Entry(k).size
  THEN SelectSeq(ds[Entry(k).name],
                 LAMBDA e : e \notin ExamplesAt(Entry(k).name, idx_remaining[Entry(k).name]))
  ELSE <<>>

\* where entry k's overflow sits in the list moved
MovedPos(k) == Cardinality({j \in 1..k : InLen(j) > Entry(j).size})

C2_Conservation ==
  pc = "done" =>
    SumLen(Out, DOMAIN Out) = SumLen(ds, Names(split_sizes) \cup {grow_split})

\* C3: the returned growth split is ds[grow_split] in its order, followed by
\* the overflow of each shrunk split in the iteration order of split_sizes;
\* when no named split is longer than its target it is ds[grow_split].
C3_GrowSplit ==
  pc = "done" =>
    /\ Out[grow_split] =
         ds[grow_split] \o Flatten([k \in DOMAIN split_sizes |-> OverflowOf(k)])
    /\ (\A k \in DOMAIN split_sizes : InLen(k) <= Entry(k).size)
         => Out[grow_split] = ds[grow_split]

\* C3: a call returned after two splits were shrunk, each with examples
\* kept and examples moved, into a growth split that was not empty
C3_Witness ==
  /\ pc = "done"
  /\ Len(ds[grow_split]) > 0
  /\ Len(split_sizes) = 2
  /\ \A k \in DOMAIN split_sizes : OverflowCount(k) > 0 /\ Entry(k).size > 0

\* C4 as stated: when grow_split is a key of split_sizes and longer than its
\* target, the returned growth split is its kept examples followed by the
\* overflow; its examples that were not kept are not in the base.
C4_KeptBase ==
  (pc = "done" /\ \E k \in DOMAIN split_sizes :
                    Entry(k).name = grow_split /\ InLen(k) > Entry(k).size)
    => Out[grow_split] = select(ds[grow_split], idx_remaining[grow_split]) \o Flatten(moved)

\* C5: a second call with the same ds, split_sizes, grow_split and seed
\* returns the same dataset: same split names, same examples, same order.
C5_Deterministic ==
  (pc = "done" /\ prev # <<>> /\ prev[1].seed = seed) => Out = prev[1].value

\* C5: the second call returned and some split had more than one possible draw
C5_Witness ==
  /\ pc = "done"
  /\ prev # <<>>
  /\ prev[1].seed = seed
  /\ \E k \in DOMAIN split_sizes :
       Cardinality(Choices(InLen(k), Entry(k).size)) > 1

\* some name in split_sizes, or grow_split, is not a split of ds
MissingName == \E s \in Names(split_sizes) \cup {grow_split} : s \notin DOMAIN ds

\* C6: with a name that is not a split of ds the call never returns: it goes
\* on until it ends with a KeyError, nothing is returned and ds is as it was.
C6_LookupError ==
  MissingName =>
    /\ pc # "done"
    /\ result = <<>>
    /\ pc = "raised" => err = "KeyError" /\ dataset = EmptyDict
    /\ pc # "raised" => ENABLED NextSplits
    /\ ds = ds_before

\* C6: the call raised on the second entry of split_sizes after it had
\* shrunk the split of the first
C6_Witness ==
  /\ pc = "raised"
  /\ Len(split_sizes) = 2
  /\ Entry(1).name \in DOMAIN ds
  /\ InLen(1) > Entry(1).size
  /\ Entry(2).name \notin DOMAIN ds

----------------------------------------------------------------------------
(* Properties of DataCollatorSpeechSeq2SeqWithPadding.__call__ *)

\* the label tensor that was returned
OutLabels == batch.labels

\* the first column was removed: the returned tensor is one column narrower
\* than the padded one
Stripped == Width(OutLabels) = Width(labels_batch.input_ids) - 1

\* the column of the padded tensor that column j of the returned one was
Source(j) == IF Stripped THEN j + 1 ELSE j

\* C7: in the returned label tensor a position whose attention mask is not 1
\* holds -100 and a position whose mask is 1 holds the example's own token
\* of that position, the positions counted one further when the first
\* column was removed; the mask is 1 exactly on the example's own tokens.
C7_IgnoreMask ==
  cpc = "done" =>
    /\ DOMAIN OutLabels = DOMAIN features
    /\ Width(OutLabels) \in {Width(labels_batch.input_ids), Width(labels_batch.input_ids) - 1}
    /\ \A i \in DOMAIN OutLabels :
         /\ Len(OutLabels[i]) = Width(OutLabels)
         /\ \A j \in DOMAIN OutLabels[i] :
              /\ labels_batch.attention_mask[i][Source(j)] = 1
                   <=> Source(j) <= Len(features[i].labels)
              /\ labels_batch.attention_mask[i][Source(j)] # 1
                   => OutLabels[i][j] = -100
              /\ labels_batch.attention_mask[i][Source(j)] = 1
                   => OutLabels[i][j] = features[i].labels[Source(j)]

\* C7: a returned tensor whose first column was removed, with a padded
\* position and a token position
C7_Witness ==
  /\ cpc = "done"
  /\ Stripped
  /\ \E i \in DOMAIN OutLabels : \E j \in DOMAIN OutLabels[i] :
       labels_batch.attention_mask[i][Source(j)] # 1
  /\ \E i \in DOMAIN OutLabels : \E j \in DOMAIN OutLabels[i] :
       labels_batch.attention_mask[i][Source(j)] = 1

\* every example's label sequence begins with bos_token_id
AllBeginWithBos ==
  \A i \in DOMAIN features :
    /\ Len(features[i].labels) > 0
    /\ features[i].labels[1] = tokenizer.bos_token_id

\* C8: the first label column is removed from the whole batch if and only if
\* every example's label sequence begins with bos_token_id; otherwise no
\* sequence is shortened and every leading token is kept.
C8_BosAllOrNothing ==
  cpc = "done" =>
    /\ Stripped <=> AllBeginWithBos
    /\ Stripped =>
         \A i \in DOMAIN features :
           OutLabels[i] = Tail(masked_fill(labels_batch.input_ids,
                                           labels_batch.attention_mask, -100)[i])
    /\ ~Stripped =>
         /\ Width(OutLabels) = Width(labels_batch.input_ids)
         /\ \A i \in DOMAIN features :
              Len(features[i].labels) > 0 => OutLabels[i][1] = features[i].labels[1]

\* C8: a returned batch that was not shortened although one example begins
\* with bos_token_id: another is empty, its first position is padding, and
\* the padding token is the bos token
C8_Witness ==
  /\ cpc = "done"
  /\ ~Stripped
  /\ tokenizer.pad_token_id = tokenizer.bos_token_id
  /\ \E i, k \in DOMAIN features :
       /\ Len(features[i].labels) > 0
       /\ features[i].labels[1] = tokenizer.bos_token_id
       /\ Len(features[k].labels) = 0

----------------------------------------------------------------------------
(* Properties of Preprocessor.__call__ *)

====
